---- MODULE Spec2Model ----
(***************************************************************************)
(* Model of axes/decorators.py: the watch_login decorator, check_request   *)
(* and get_user_attempt, over the AccessAttempt table.                      *)
(*                                                                         *)
(* Spec         requests of one client are handled one at a time (one       *)
(*              action per request), under every lock-out setting.          *)
(* SpecClients  the same, for three clients (two user agents of one IP      *)
(*              address and a second IP address).                           *)
(* SpecConc     requests interleave at the granularity of the table access: *)
(*              the query of get_user_attempt, its delete on cool-off       *)
(*              expiry and the create/save/delete of check_request are      *)
(*              separate steps.                                             *)
(***************************************************************************)
EXTENDS Integers, Sequences, FiniteSets, TLC

VARIABLES cfg, traffic, now, store, last, procs

vars == <<cfg, traffic, now, store, last, procs>>

(***************************************************************************)
(* Bounds of the model.                                                    *)
(***************************************************************************)
MaxTime == 2
MaxFailures == 5
MaxDepth == 2
MaxStreak == 6
NumProcs == 2
MaxId == 8

(***************************************************************************)
(* Tokens of the strings stored in the diagnostic fields.  Keys and values *)
(* of query parameters are positive numbers; the separators are below.     *)
(***************************************************************************)
EqTok == -1
NlTok == -2
DashTok == -3

DefaultFailureLimit == 3
StatusOk == 200
StatusFound == 302

Min(a, b) == IF a < b THEN a ELSE b

(***************************************************************************)
(* Settings (module-level globals of decorators.py, read once at import).  *)
(* cooloff = 0 stands for AXES_COOLOFF_TIME unset (None, falsy).           *)
(***************************************************************************)
FAILURE_LIMIT == cfg.limit
LOCK_OUT_AT_FAILURE == cfg.lockout
USE_USER_AGENT == cfg.use_ua
COOLOFF_TIME == cfg.cooloff
LOCKOUT_TEMPLATE == cfg.template
LOCKOUT_URL == cfg.url

Settings(limits, lockouts, use_uas, cooloffs, templates, urls) ==
    [limit : limits, lockout : lockouts, use_ua : use_uas,
     cooloff : cooloffs, template : templates, url : urls]

(***************************************************************************)
(* Responses.  some = FALSE is a falsy result of the wrapped function      *)
(* (None).  kind tells the handler's own response from the lockout         *)
(* responses built by decorated_login.                                     *)
(***************************************************************************)
NoResponse == [kind |-> "handler", some |-> FALSE, location |-> FALSE, status |-> 0]

HandlerResponses ==
    {NoResponse} \cup
    [kind : {"handler"}, some : {TRUE}, location : BOOLEAN,
     status : {StatusOk, StatusFound}]

\* render_to_response(LOCKOUT_TEMPLATE, context)
TemplateResponse ==
    [kind |-> "template", some |-> TRUE, location |-> FALSE, status |-> StatusOk]
\* HttpResponseRedirect(LOCKOUT_URL)
RedirectResponse ==
    [kind |-> "redirect", some |-> TRUE, location |-> TRUE, status |-> StatusFound]
\* HttpResponse("... Please try again later.")
LaterResponse ==
    [kind |-> "text_later", some |-> TRUE, location |-> FALSE, status |-> StatusOk]
\* HttpResponse("... Contact an admin to unlock your account.")
AdminResponse ==
    [kind |-> "text_admin", some |-> TRUE, location |-> FALSE, status |-> StatusOk]

(***************************************************************************)
(* query2str: '\n'.join(['%s=%s' % (k, v) for k, v in items]).  items is a *)
(* sequence of <<key, value>> pairs, the result a sequence of tokens.      *)
(***************************************************************************)
RECURSIVE query2str(_)
query2str(items) ==
    IF items = <<>> THEN <<>>
    ELSE IF Len(items) = 1 THEN <<items[1][1], EqTok, items[1][2]>>
    ELSE <<items[1][1], EqTok, items[1][2], NlTok>> \o query2str(Tail(items))

\* Mutant of Appended: the new snapshot is put in front of the old ones.
AppendedInFront(old, new) == new \o <<NlTok, DashTok, NlTok>> \o old

\* '%s\n---------\n%s' % (old, new)
Appended(old, new) == old \o <<NlTok, DashTok, NlTok>> \o new

(***************************************************************************)
(* The AccessAttempt table: a set of rows.  id is the primary key; id = 0  *)
(* is used for None (no attempt).                                          *)
(***************************************************************************)
NoAttempt == [id |-> 0]

Ids == 1..MaxId

DeleteRow(st, id) == {a \in st : a.id # id}

\* Model.save() of a row with a primary key: UPDATE when the row exists,
\* INSERT with the same key when it does not.
SaveRow(st, a) == DeleteRow(st, a.id) \cup {a}

\* Primary keys are opaque: a new row gets the smallest key that no row has
\* and no request in flight still holds.
HeldIds == {procs[p].attempt.id : p \in DOMAIN procs}

FreshId(st) ==
    CHOOSE i \in Ids : /\ i \notin {a.id : a \in st} \cup HeldIds
                       /\ \A j \in Ids : j < i => j \in {a.id : a \in st} \cup HeldIds

\* DateTimeField(auto_now_add=True) of AccessAttempt.attempt_time
AutoNowAdd(t) == t

(***************************************************************************)
(* get_user_attempt                                                        *)
(***************************************************************************)
\* Mutant of Matches: the user agent is left out of the filter.
MatchesIpOnly(a, req) == a.ip_address = req.ip

Matches(a, req) ==
    IF USE_USER_AGENT
    THEN a.user_agent = req.ua /\ a.ip_address = req.ip
    ELSE a.ip_address = req.ip

\* AccessAttempt.objects.filter(...)
Filter(st, req) == {a \in st : Matches(a, req)}

\* attempts[0] of an unordered query: any of the matching rows
First(attempts) == IF attempts = {} THEN {NoAttempt} ELSE attempts

\* Mutant of Expired: the comparison is the wrong way round.
ExpiredReversed(a, t) == COOLOFF_TIME # 0 /\ a.attempt_time + COOLOFF_TIME > t

Expired(a, t) == COOLOFF_TIME # 0 /\ a.attempt_time + COOLOFF_TIME < t

\* The possible results of get_user_attempt: the attempt returned and the
\* table it leaves.
get_user_attempt(st, req, t) ==
    { IF a.id = 0 THEN [attempt |-> NoAttempt, store |-> st]
      ELSE IF Expired(a, t)
           THEN [attempt |-> NoAttempt, store |-> DeleteRow(st, a.id)]
           ELSE [attempt |-> a, store |-> st]
      : a \in First(Filter(st, req)) }

(***************************************************************************)
(* check_request, after the call of get_user_attempt (lines 124-179).      *)
(***************************************************************************)
\* Mutant of Failures: the count of the attempt found is not read.
FailuresUnread(attempt) == 0

Failures(attempt) == IF attempt.id # 0 THEN attempt.failures_since_start ELSE 0

\* Mutants of LockedOut: the threshold one too high, one too low, and the
\* AXES_LOCK_OUT_AT_FAILURE setting ignored.
LockedOutLate(attempt) ==
    Failures(attempt) > FAILURE_LIMIT + 1 /\ LOCK_OUT_AT_FAILURE

LockedOutAtLimit(attempt) ==
    Failures(attempt) >= FAILURE_LIMIT /\ LOCK_OUT_AT_FAILURE

LockedOutIgnoresSetting(attempt) == Failures(attempt) > FAILURE_LIMIT

LockedOut(attempt) == Failures(attempt) > FAILURE_LIMIT /\ LOCK_OUT_AT_FAILURE

\* Mutant of Updated: failures_since_start is not assigned.
UpdatedKeepsCount(attempt, req, t) ==
    [attempt EXCEPT
        !.get_data = Appended(attempt.get_data, query2str(req.get)),
        !.post_data = Appended(attempt.post_data, query2str(req.post)),
        !.http_accept = req.accept,
        !.path_info = req.path,
        !.attempt_time = t]

Updated(attempt, req, t) ==
    [attempt EXCEPT
        !.get_data = Appended(attempt.get_data, query2str(req.get)),
        !.post_data = Appended(attempt.post_data, query2str(req.post)),
        !.http_accept = req.accept,
        !.path_info = req.path,
        !.failures_since_start = Failures(attempt) + 1,
        !.attempt_time = t]

Created(id, req, t) ==
    [id |-> id,
     user_agent |-> req.ua,
     ip_address |-> req.ip,
     get_data |-> query2str(req.get),
     post_data |-> query2str(req.post),
     http_accept |-> req.accept,
     path_info |-> req.path,
     failures_since_start |-> 0 + 1,
     attempt_time |-> AutoNowAdd(t)]

\* Mutant of CheckTail: a successful login clears the row before the
\* lock-out test.
CheckTailClearsFirst(attempt, st, req, login_unsuccessful, t) ==
    IF ~login_unsuccessful
    THEN IF attempt.id # 0
         THEN [ok |-> TRUE, store |-> DeleteRow(st, attempt.id),
               logout |-> FALSE, wrote |-> TRUE]
         ELSE [ok |-> TRUE, store |-> st, logout |-> FALSE, wrote |-> FALSE]
    ELSE IF LockedOut(attempt)
    THEN [ok |-> FALSE, store |-> st, logout |-> TRUE, wrote |-> FALSE]
    ELSE IF attempt.id # 0
         THEN [ok |-> TRUE, store |-> SaveRow(st, Updated(attempt, req, t)),
               logout |-> FALSE, wrote |-> TRUE]
         ELSE [ok |-> TRUE, store |-> st \cup {Created(FreshId(st), req, t)},
               logout |-> FALSE, wrote |-> TRUE]

\* Mutant of CheckTail: a failure of a locked-out identity is recorded
\* before it is turned away.
CheckTailCountsBlocked(attempt, st, req, login_unsuccessful, t) ==
    IF LockedOut(attempt)
    THEN [ok |-> FALSE,
          store |-> IF login_unsuccessful
                    THEN SaveRow(st, Updated(attempt, req, t)) ELSE st,
          logout |-> TRUE, wrote |-> login_unsuccessful]
    ELSE IF login_unsuccessful
    THEN IF attempt.id # 0
         THEN [ok |-> TRUE, store |-> SaveRow(st, Updated(attempt, req, t)),
               logout |-> FALSE, wrote |-> TRUE]
         ELSE [ok |-> TRUE, store |-> st \cup {Created(FreshId(st), req, t)},
               logout |-> FALSE, wrote |-> TRUE]
    ELSE IF attempt.id # 0
         THEN [ok |-> TRUE, store |-> DeleteRow(st, attempt.id),
               logout |-> FALSE, wrote |-> TRUE]
         ELSE [ok |-> TRUE, store |-> st, logout |-> FALSE, wrote |-> FALSE]

\* Mutant of CheckTail: turning a locked-out identity away sets the
\* attempt_time of its row to the current time.
CheckTailBlockedRefreshes(attempt, st, req, login_unsuccessful, t) ==
    IF LockedOut(attempt)
    THEN [ok |-> FALSE,
          store |-> SaveRow(st, [attempt EXCEPT !.attempt_time = t]),
          logout |-> TRUE, wrote |-> TRUE]
    ELSE IF login_unsuccessful
    THEN IF attempt.id # 0
         THEN [ok |-> TRUE, store |-> SaveRow(st, Updated(attempt, req, t)),
               logout |-> FALSE, wrote |-> TRUE]
         ELSE [ok |-> TRUE, store |-> st \cup {Created(FreshId(st), req, t)},
               logout |-> FALSE, wrote |-> TRUE]
    ELSE IF attempt.id # 0
         THEN [ok |-> TRUE, store |-> DeleteRow(st, attempt.id),
               logout |-> FALSE, wrote |-> TRUE]
         ELSE [ok |-> TRUE, store |-> st, logout |-> FALSE, wrote |-> FALSE]

\* Mutant of CheckTail: the save starts from the row as the table holds it
\* at the time of the write, not from the attempt read at lookup.
CheckTailRereads(attempt, st, req, login_unsuccessful, t) ==
    IF LockedOut(attempt)
    THEN [ok |-> FALSE, store |-> st, logout |-> TRUE, wrote |-> FALSE]
    ELSE IF login_unsuccessful
    THEN IF attempt.id # 0
         THEN [ok |-> TRUE,
               store |-> SaveRow(st, Updated(
                            IF \E b \in st : b.id = attempt.id
                            THEN CHOOSE b \in st : b.id = attempt.id
                            ELSE attempt, req, t)),
               logout |-> FALSE, wrote |-> TRUE]
         ELSE [ok |-> TRUE, store |-> st \cup {Created(FreshId(st), req, t)},
               logout |-> FALSE, wrote |-> TRUE]
    ELSE IF attempt.id # 0
         THEN [ok |-> TRUE, store |-> DeleteRow(st, attempt.id),
               logout |-> FALSE, wrote |-> TRUE]
         ELSE [ok |-> TRUE, store |-> st, logout |-> FALSE, wrote |-> FALSE]

\* ok is the value check_request returns; logout tells whether
\* logout(request) was called; wrote whether the table was written.
CheckTail(attempt, st, req, login_unsuccessful, t) ==
    IF LockedOut(attempt)
    THEN [ok |-> FALSE, store |-> st, logout |-> TRUE, wrote |-> FALSE]
    ELSE IF login_unsuccessful
    THEN IF attempt.id # 0
         THEN [ok |-> TRUE, store |-> SaveRow(st, Updated(attempt, req, t)),
               logout |-> FALSE, wrote |-> TRUE]
         ELSE [ok |-> TRUE, store |-> st \cup {Created(FreshId(st), req, t)},
               logout |-> FALSE, wrote |-> TRUE]
    ELSE IF attempt.id # 0
         THEN [ok |-> TRUE, store |-> DeleteRow(st, attempt.id),
               logout |-> FALSE, wrote |-> TRUE]
         ELSE [ok |-> TRUE, store |-> st, logout |-> FALSE, wrote |-> FALSE]

check_request(st, req, login_unsuccessful, t) ==
    { CheckTail(g.attempt, g.store, req, login_unsuccessful, t)
      : g \in get_user_attempt(st, req, t) }

(***************************************************************************)
(* watch_login.decorated_login                                             *)
(***************************************************************************)
\* Mutant of LoginUnsuccessful: the status code is not looked at.
LoginUnsuccessfulNoStatus(response) == response.some /\ ~response.location

\* Mutant of LoginUnsuccessful: the location header is not looked at.
LoginUnsuccessfulNoLocation(response) ==
    response.some /\ response.status # StatusFound

\* response and not response.has_header('location')
\*          and response.status_code != 302
LoginUnsuccessful(response) ==
    response.some /\ ~response.location /\ response.status # StatusFound

\* Mutant of LockoutResponse: LOCKOUT_URL is looked at before
\* LOCKOUT_TEMPLATE.
LockoutResponseUrlFirst ==
    IF LOCKOUT_URL THEN RedirectResponse
    ELSE IF LOCKOUT_TEMPLATE THEN TemplateResponse
    ELSE IF COOLOFF_TIME # 0 THEN LaterResponse
    ELSE AdminResponse

LockoutResponse ==
    IF LOCKOUT_TEMPLATE THEN TemplateResponse
    ELSE IF LOCKOUT_URL THEN RedirectResponse
    ELSE IF COOLOFF_TIME # 0 THEN LaterResponse
    ELSE AdminResponse

\* The wrapped login view: returns req.response and logs the user in when
\* req.login says so.  calls counts the calls of the view.
Func(st, req) ==
    [response |-> req.response, store |-> st, blocked |-> FALSE,
     logout |-> FALSE, session |-> req.login, lookups |-> 0, writes |-> 0,
     calls |-> 1]

\* Mutant of IsInternal: a wrapped decorated_login is not recognised.
IsInternalNever(func_is_guard) == FALSE

\* func.__name__ == 'decorated_login'
IsInternal(func_is_guard) == func_is_guard

\* Mutant of Guarded: logout(request) runs before the login view is called,
\* so a session the view sets up is still there afterwards.
GuardedLogoutFirst(func_is_guard, r, req, t) ==
    IF IsInternal(func_is_guard) THEN {r}
    ELSE IF req.method = "POST"
    THEN { IF c.ok
           THEN [r EXCEPT !.store = c.store,
                          !.lookups = @ + 1,
                          !.writes = @ + (IF c.wrote THEN 1 ELSE 0)]
           ELSE [r EXCEPT !.store = c.store,
                          !.response = LockoutResponse,
                          !.blocked = TRUE,
                          !.logout = TRUE,
                          !.lookups = @ + 1]
           : c \in check_request(r.store, req, LoginUnsuccessful(r.response), t) }
    ELSE {r}

\* Mutant of Guarded: the request is checked whatever its method.
GuardedAnyMethod(func_is_guard, r, req, t) ==
    IF IsInternal(func_is_guard) THEN {r}
    ELSE { IF c.ok
           THEN [r EXCEPT !.store = c.store,
                          !.lookups = @ + 1,
                          !.writes = @ + (IF c.wrote THEN 1 ELSE 0)]
           ELSE [r EXCEPT !.store = c.store,
                          !.response = LockoutResponse,
                          !.blocked = TRUE,
                          !.logout = TRUE,
                          !.session = FALSE,
                          !.lookups = @ + 1]
           : c \in check_request(r.store, req,
                                 req.method = "POST" /\ LoginUnsuccessful(r.response), t) }

\* One decorated_login around func, whose call gave r.
Guarded(func_is_guard, r, req, t) ==
    IF IsInternal(func_is_guard) THEN {r}
    ELSE IF req.method = "POST"
    THEN { IF c.ok
           THEN [r EXCEPT !.store = c.store,
                          !.lookups = @ + 1,
                          !.writes = @ + (IF c.wrote THEN 1 ELSE 0)]
           ELSE [r EXCEPT !.store = c.store,
                          !.response = LockoutResponse,
                          !.blocked = TRUE,
                          !.logout = TRUE,
                          !.session = FALSE,
                          !.lookups = @ + 1]
           : c \in check_request(r.store, req, LoginUnsuccessful(r.response), t) }
    ELSE {r}

\* depth decorated_login layers around the login view: the innermost one
\* wraps the view, every other one wraps a decorated_login.
RECURSIVE decorated_login(_, _, _, _)
decorated_login(depth, st, req, t) ==
    IF depth = 1
    THEN Guarded(FALSE, Func(st, req), req, t)
    ELSE UNION { Guarded(TRUE, r, req, t) : r \in decorated_login(depth - 1, st, req, t) }

(***************************************************************************)
(* Requests.  response and login describe what the wrapped login view does *)
(* with the request: the response it returns and whether it logs the user  *)
(* in.  depth is the number of decorated_login layers around the view.     *)
(***************************************************************************)
NoRequest ==
    [ip |-> 0, ua |-> 0, method |-> "NONE", response |-> NoResponse,
     login |-> FALSE, depth |-> 1, get |-> <<>>, post |-> <<>>,
     accept |-> 0, path |-> 0]

\* What the login view can do: any response without logging in, or log the
\* user in and redirect.
Found ==
    [kind |-> "handler", some |-> TRUE, location |-> TRUE, status |-> StatusFound]

ViewResults ==
    [response : HandlerResponses, login : {FALSE}] \cup
    {[response |-> Found, login |-> TRUE]}

\* The two results of the admin login view: the login page again (wrong
\* credentials), or the user logged in and redirected.
LoginPage ==
    [kind |-> "handler", some |-> TRUE, location |-> FALSE, status |-> StatusOk]

PlainResults ==
    {[response |-> LoginPage, login |-> FALSE], [response |-> Found, login |-> TRUE]}

Requests(clients, methods, results, depths) ==
    { [ip |-> c[1], ua |-> c[2], method |-> m, response |-> r.response,
       login |-> r.login, depth |-> d, get |-> <<<<1, 1>>>>,
       post |-> <<<<1, 2>>, <<2, 1>>>>, accept |-> 1, path |-> 1]
      : c \in clients, m \in methods, r \in results, d \in depths }

\* The same requests, each with every one of the given values v in its
\* query string, form fields, Accept header and path.
Diagnosed(requests, values) ==
    { [r EXCEPT !.get = <<<<1, v>>>>,
                !.post = <<<<1, v + 1>>, <<2, v>>>>,
                !.accept = v + 2,
                !.path = v + 3]
      : r \in requests, v \in values }

(***************************************************************************)
(* Observation of a handled request.  The identity of a request or row is  *)
(* the IP address, with the user agent when USE_USER_AGENT is set.         *)
(***************************************************************************)
Identity(ip, ua) == IF cfg.use_ua THEN <<ip, ua>> ELSE <<ip>>

SameIdentity(r1, r2) == Identity(r1.ip, r1.ua) = Identity(r2.ip, r2.ua)

RowsOf(st, req) ==
    {a \in st : Identity(a.ip_address, a.user_agent) = Identity(req.ip, req.ua)}

Stale(a, t) == cfg.cooloff # 0 /\ a.attempt_time + cfg.cooloff < t

FailedPost(req) ==
    /\ req.method = "POST"
    /\ req.response.some
    /\ ~req.response.location
    /\ req.response.status # StatusFound

\* A POST whose response carries a location header or has status 302
SucceededPost(req) ==
    /\ req.method = "POST"
    /\ req.response.some
    /\ (req.response.location \/ req.response.status = StatusFound)

\* The failure counts the identity of req has at time t: 0 when it has no
\* row or only rows expired by cool-off.
EffectiveCounts(st, req, t) ==
    IF \A a \in RowsOf(st, req) : Stale(a, t) THEN {0}
    ELSE {a.failures_since_start : a \in {b \in RowsOf(st, req) : ~Stale(b, t)}}

\* The counts of the rows of the identity of req that have expired at time t
StaleCounts(st, req, t) ==
    {a.failures_since_start : a \in {b \in RowsOf(st, req) : Stale(b, t)}}

\* Length of the run of failed POSTs of the identity of last.req that ends
\* with last.req, as seen by a request req of the same identity that follows.
PrevStreak(req) ==
    IF last.handled /\ SameIdentity(last.req, req) THEN last.streak ELSE 0

\* Length of the run of failed POSTs of one identity, handled back to back,
\* that began when the identity had no unexpired row; 0 outside such a run.
Streak(req) ==
    IF ~FailedPost(req) THEN 0
    ELSE IF EffectiveCounts(store, req, now) = {0} THEN 1
    ELSE IF PrevStreak(req) > 0 THEN Min(PrevStreak(req) + 1, MaxStreak)
    ELSE 0

\* What a failing request leaves to be recorded.
Snapshot(req) ==
    [get |-> req.get, post |-> req.post, accept |-> req.accept, path |-> req.path]

\* The failing requests recorded in the row of the identity of req, oldest
\* first, when req was answered blocked or not; <<>> when the identity has
\* no row or its history is not known.
Snaps(req, blocked) ==
    IF FailedPost(req) /\ ~blocked
    THEN IF EffectiveCounts(store, req, now) = {0} THEN <<Snapshot(req)>>
         ELSE IF SameIdentity(last.req, req) /\ last.snaps # <<>>
         THEN Append(last.snaps, Snapshot(req))
         ELSE <<>>
    ELSE IF SameIdentity(last.req, req) /\ (req.method # "POST" \/ blocked)
    THEN last.snaps
    ELSE <<>>

\* Whether the identity of req has been turned away since its last recorded
\* failure; a request that finds the row expired still carries the answer.
Denied(req, blocked) ==
    IF blocked THEN TRUE
    ELSE IF ~SameIdentity(last.req, req) THEN FALSE
    ELSE IF req.method # "POST" THEN last.denied
    ELSE IF StaleCounts(store, req, now) # {} /\ EffectiveCounts(store, req, now) = {0}
    THEN last.denied
    ELSE FALSE

Idle == [pc |-> "idle", req |-> NoRequest, attempt |-> NoAttempt]

NoOutcome ==
    [handled |-> FALSE, req |-> NoRequest, response |-> NoResponse,
     blocked |-> FALSE, logout |-> FALSE, session |-> FALSE,
     lookups |-> 0, writes |-> 0, calls |-> 0,
     prior |-> {0}, stale |-> {}, streak |-> 0, snaps |-> <<>>,
     denied |-> FALSE, passed |-> 0, overlap |-> FALSE]

\* r is the result of the outermost decorated_login; the other fields are
\* taken from the state in which the request arrives.
Outcome(req, r) ==
    [handled |-> TRUE, req |-> req, response |-> r.response,
     blocked |-> r.blocked, logout |-> r.logout, session |-> r.session,
     lookups |-> r.lookups, writes |-> r.writes, calls |-> r.calls,
     prior |-> EffectiveCounts(store, req, now),
     stale |-> StaleCounts(store, req, now),
     streak |-> Streak(req),
     snaps |-> Snaps(req, r.blocked),
     denied |-> Denied(req, r.blocked),
     passed |-> 0, overlap |-> FALSE]

\* The number of failed POSTs answered with the login view's own response
\* since a row was last deleted (by a login that succeeded or by cool-off),
\* after req was answered.
Passed(req, blocked) ==
    IF blocked THEN last.passed
    ELSE IF FailedPost(req) THEN Min(last.passed + 1, MaxStreak)
    ELSE 0

\* Whether a request other than that of p is in flight.
Raced(p) == \E q \in DOMAIN procs : q # p /\ procs[q].pc # "idle"

\* Whether two requests have been in flight together since the identity of
\* req last had no row and no request in flight; st is the table after a
\* row was deleted for the request of p.
Cleared(p, req, st) == Raced(p) \/ RowsOf(st, req) # {}

\* The same after the request of p was answered, leaving the table st.
Overlap(p, req, blocked, st) ==
    IF blocked \/ FailedPost(req) THEN last.overlap ELSE Cleared(p, req, st)

\* The same for a request handled while others are in flight: there is no
\* one state in which it arrives.
Returned(req, r) ==
    [Outcome(req, r) EXCEPT !.prior = {0}, !.stale = {}, !.streak = 0,
                            !.snaps = <<>>, !.denied = FALSE,
                            !.passed = last.passed, !.overlap = last.overlap]

Bounded(st) ==
    /\ \A a \in st : a.failures_since_start <= MaxFailures
    /\ Cardinality(st) + NumProcs < MaxId

InitWith(settings, requests) ==
    /\ cfg \in settings
    /\ traffic = requests
    /\ now = 0
    /\ store = {}
    /\ last = NoOutcome
    /\ procs = [p \in 1..NumProcs |-> Idle]

\* datetime.now() advances
Tick ==
    /\ now < MaxTime
    /\ now' = now + 1
    /\ UNCHANGED <<cfg, traffic, store, last, procs>>

(***************************************************************************)
(* Spec: one request at a time.                                            *)
(***************************************************************************)
Login(req) ==
    /\ \E r \in decorated_login(req.depth, store, req, now) :
          /\ Bounded(r.store)
          /\ store' = r.store
          /\ last' = Outcome(req, r)
    /\ UNCHANGED <<cfg, traffic, now, procs>>

Init ==
    InitWith(Settings({1, DefaultFailureLimit}, BOOLEAN, {FALSE}, {0, 1},
                      BOOLEAN, BOOLEAN),
             Requests({<<1, 1>>}, {"POST"}, ViewResults, 1..MaxDepth)
             \cup Requests({<<1, 1>>}, {"GET"}, PlainResults, 1..MaxDepth))

Next ==
    \/ Tick
    \/ \E req \in traffic : Login(req)

Spec == Init /\ [][Next]_vars

(***************************************************************************)
(* SpecDiag: one request at a time, with requests that differ in what is   *)
(* recorded of them.                                                       *)
(***************************************************************************)
DiagValues == {1, 2}

InitDiag ==
    InitWith(Settings({DefaultFailureLimit}, BOOLEAN, {FALSE}, {0, 1},
                      {FALSE}, {FALSE}),
             Diagnosed(Requests({<<1, 1>>}, {"POST"}, PlainResults, {1}),
                       DiagValues))

SpecDiag == InitDiag /\ [][Next]_vars

(***************************************************************************)
(* SpecLive: one request at a time, with lockout and cool-off, and a clock *)
(* that keeps advancing (up to MaxTime).                                   *)
(***************************************************************************)
InitLive ==
    InitWith(Settings({1, DefaultFailureLimit}, {TRUE}, {FALSE}, {1},
                      {FALSE}, {FALSE}),
             Requests({<<1, 1>>}, {"POST", "GET"}, PlainResults, {1}))

SpecLive == InitLive /\ [][Next]_vars /\ WF_vars(Tick)

(***************************************************************************)
(* SpecClients: one request at a time, from several clients.               *)
(***************************************************************************)
Clients == {<<1, 1>>, <<1, 2>>, <<2, 1>>}

InitClients ==
    InitWith(Settings({1}, {TRUE}, BOOLEAN, {0, 1}, {FALSE}, {FALSE}),
             Requests(Clients, {"POST"},
                      PlainResults,
                      {1}))

SpecClients == InitClients /\ [][Next]_vars

(***************************************************************************)
(* SpecConc: requests in flight together.  A request is at "lookup" before *)
(* the query of get_user_attempt, at "expire" before its attempt.delete()  *)
(* and at "check" before the rest of check_request.                        *)
(***************************************************************************)
Call(p, req) ==
    /\ procs[p].pc = "idle"
    /\ IF req.method = "POST"
       THEN /\ procs' = [procs EXCEPT ![p] = [pc |-> "lookup", req |-> req,
                                              attempt |-> NoAttempt]]
            /\ last' = [last EXCEPT !.overlap = @ \/ Raced(p)]
       ELSE /\ last' = Returned(req, Func(store, req))
            /\ UNCHANGED procs
    /\ UNCHANGED <<cfg, traffic, now, store>>

Lookup(p) ==
    /\ procs[p].pc = "lookup"
    /\ \E a \in First(Filter(store, procs[p].req)) :
          procs' = [procs EXCEPT
                      ![p].attempt = a,
                      ![p].pc = IF a.id # 0 /\ Expired(a, now)
                                 THEN "expire" ELSE "check"]
    /\ UNCHANGED <<cfg, traffic, now, store, last>>

Expire(p) ==
    /\ procs[p].pc = "expire"
    /\ store' = DeleteRow(store, procs[p].attempt.id)
    /\ procs' = [procs EXCEPT ![p].attempt = NoAttempt, ![p].pc = "check"]
    /\ last' = [last EXCEPT !.passed = 0,
                            !.overlap = Cleared(p, procs[p].req, store')]
    /\ UNCHANGED <<cfg, traffic, now>>

Finish(p) ==
    /\ procs[p].pc = "check"
    /\ LET req == procs[p].req
           c == CheckTail(procs[p].attempt, store, req,
                          LoginUnsuccessful(req.response), now)
           r == Func(store, req)
       IN /\ Bounded(c.store)
          /\ store' = c.store
          /\ last' = [Returned(req,
                 IF c.ok
                 THEN [r EXCEPT !.store = c.store, !.lookups = 1,
                                !.writes = IF c.wrote THEN 1 ELSE 0]
                 ELSE [r EXCEPT !.store = c.store, !.lookups = 1,
                                !.response = LockoutResponse,
                                !.blocked = TRUE, !.logout = TRUE,
                                !.session = FALSE])
                      EXCEPT !.passed = Passed(req, ~c.ok),
                             !.overlap = Overlap(p, req, ~c.ok, c.store)]
    /\ procs' = [procs EXCEPT ![p] = Idle]
    /\ UNCHANGED <<cfg, traffic, now>>

InitConc ==
    InitWith(Settings({1}, {TRUE}, {FALSE}, {1}, {FALSE}, {FALSE}),
             Requests({<<1, 1>>}, {"POST"},
                      PlainResults,
                      {1}))

NextConc ==
    \/ Tick
    \/ \E p \in DOMAIN procs : \E req \in traffic : Call(p, req)
    \/ \E p \in DOMAIN procs : Lookup(p)
    \/ \E p \in DOMAIN procs : Expire(p)
    \/ \E p \in DOMAIN procs : Finish(p)

SpecConc == InitConc /\ [][NextConc]_vars

(***************************************************************************)
(* SpecRace: requests in flight together within one instant, without       *)
(* cool-off: no row expires, and the clock plays no part.                  *)
(***************************************************************************)
InitRace ==
    InitWith(Settings({1}, {TRUE}, {FALSE}, {0}, {FALSE}, {FALSE}),
             Requests({<<1, 1>>}, {"POST"},
                      PlainResults,
                      {1}))

NextRace ==
    \/ \E p \in DOMAIN procs : \E req \in traffic : Call(p, req)
    \/ \E p \in DOMAIN procs : Lookup(p)
    \/ \E p \in DOMAIN procs : Finish(p)

SpecRace == InitRace /\ [][NextRace]_vars

(***************************************************************************)
(* Properties.  last is the request handled most recently; store is the    *)
(* table it left, until the next request is handled.                       *)
(***************************************************************************)
Rows == RowsOf(store, last.req)

IsLockoutResponse(response) ==
    response.kind \in {"template", "redirect", "text_later", "text_admin"}

\* The row is new: one failure, and only this request's parameters.
FreshRow(a, req) ==
    /\ a.failures_since_start = 1
    /\ a.get_data = query2str(req.get)
    /\ a.post_data = query2str(req.post)

\* A request was handled in this step (Tick leaves last as it is; a request
\* that leaves every variable as it is changes nothing to be checked).
Handled == last' # last /\ last'.handled

\* C1: with lockout enabled, a POST of an identity whose unexpired failure
\* count is above the limit is blocked whatever the login view answered:
\* the caller gets the lockout response, and logout(request) is called.
C1_OverLimitBlocked ==
    (/\ last.handled
     /\ cfg.lockout
     /\ last.req.method = "POST"
     /\ \E c \in last.prior : c > cfg.limit)
    => /\ last.blocked
       /\ IsLockoutResponse(last.response)
       /\ last.response # last.req.response
       /\ last.logout
       /\ ~last.session

C1_Witness ==
    /\ last.handled
    /\ cfg.lockout
    /\ last.req.method = "POST"
    /\ last.req.login
    /\ \E c \in last.prior : c > cfg.limit
    /\ last.blocked
    /\ last.logout

\* C2: a failed POST of an identity whose effective count c is at most the
\* limit leaves exactly one row of the identity, with count c + 1, and is
\* not blocked: the view's own response is returned.
C2_FailureCounted ==
    (/\ last.handled
     /\ FailedPost(last.req)
     /\ \A c \in last.prior : c <= cfg.limit)
    => /\ ~last.blocked
       /\ last.response = last.req.response
       /\ Cardinality(Rows) = 1
       /\ \A a \in Rows : last.prior = {a.failures_since_start - 1}

C2_Witness ==
    /\ last.handled
    /\ FailedPost(last.req)
    /\ last.prior = {cfg.limit}
    /\ ~last.blocked
    /\ \E a \in Rows : a.failures_since_start = cfg.limit + 1

\* C3: with lockout enabled, in a run of failed POSTs of one identity that
\* starts without a row, submissions 1 to limit + 1 are not blocked and
\* submission limit + 2 is blocked.
C3_FirstBlockedSubmission ==
    (last.handled /\ cfg.lockout /\ last.streak > 0)
    => /\ last.streak <= cfg.limit + 1 => ~last.blocked
       /\ last.streak = cfg.limit + 2 => last.blocked

C3_Witness ==
    /\ last.handled
    /\ cfg.lockout
    /\ cfg.limit = DefaultFailureLimit
    /\ last.streak = cfg.limit + 2
    /\ last.blocked

\* C4: a successful POST (location header or status 302) of an identity
\* that is not over the limit, or with lockout disabled, leaves no row of
\* the identity, and the next failed POST of the identity creates a new row
\* with count 1.
C4_Cleared ==
    (/\ last.handled
     /\ SucceededPost(last.req)
     /\ (cfg.lockout => \A c \in last.prior : c <= cfg.limit))
    => /\ ~last.blocked
       /\ last.response = last.req.response
       /\ Rows = {}

C4_ThenFresh ==
    (/\ last.handled
     /\ SucceededPost(last.req)
     /\ ~last.blocked
     /\ Handled
     /\ FailedPost(last'.req)
     /\ SameIdentity(last.req, last'.req))
    => \E a \in store' : /\ RowsOf(store', last'.req) = {a}
                         /\ FreshRow(a, last'.req)

C4_SuccessClears == []C4_Cleared /\ [][C4_ThenFresh]_vars

C4_Witness ==
    /\ last.handled
    /\ SucceededPost(last.req)
    /\ \E c \in last.prior : c > 0
    /\ ~last.blocked
    /\ Rows = {}

\* A POST with correct credentials: the view logs the user in and redirects.
CorrectPost(req) == req.method = "POST" /\ req.login /\ req.response = Found

ScenarioSettings == cfg.limit = DefaultFailureLimit /\ cfg.lockout /\ cfg.cooloff = 0

\* C5 as stated: with failure_limit = 3 and lockout enabled, a POST with
\* correct credentials that follows four consecutive failed POSTs of the
\* identity clears the identity's row.
C5_ClearedAfterFourFailures ==
    [][(/\ ScenarioSettings
        /\ last.streak = 4
        /\ Handled
        /\ CorrectPost(last'.req)
        /\ SameIdentity(last.req, last'.req))
       => RowsOf(store', last'.req) = {}]_vars

\* C5 amended: with failure_limit = 3 and lockout enabled, a POST with
\* correct credentials that follows four consecutive failed POSTs is blocked
\* and leaves the row, with count 4, as it is; one that follows one to three
\* consecutive failed POSTs is not blocked and clears the row, and the next
\* failed POST of the identity creates a new row with count 1.
C5_AfterFailures ==
    (/\ ScenarioSettings
     /\ last.streak > 0
     /\ Handled
     /\ CorrectPost(last'.req)
     /\ SameIdentity(last.req, last'.req))
    => /\ last.streak = 4 =>
            /\ last'.blocked
            /\ store' = store
            /\ \A a \in RowsOf(store', last'.req) : a.failures_since_start = 4
       /\ last.streak \in 1..3 =>
            /\ ~last'.blocked
            /\ RowsOf(store', last'.req) = {}

C5_ThenFresh ==
    (/\ ScenarioSettings
     /\ last.handled
     /\ CorrectPost(last.req)
     /\ ~last.blocked
     /\ Handled
     /\ FailedPost(last'.req)
     /\ SameIdentity(last.req, last'.req))
    => /\ last'.streak = 1
       /\ \E a \in store' : /\ RowsOf(store', last'.req) = {a}
                            /\ FreshRow(a, last'.req)

C5_ScenarioB == [][C5_AfterFailures]_vars /\ [][C5_ThenFresh]_vars

C5_Witness ==
    /\ ScenarioSettings
    /\ last.handled
    /\ CorrectPost(last.req)
    /\ last.blocked
    /\ last.prior = {4}
    /\ \E a \in Rows : a.failures_since_start = 4

\* C6: with a cool-off configured, a POST of an identity whose row has
\* attempt_time + cool-off before the current time is handled as if the
\* identity had no failures, whatever the count of the row: it is not
\* blocked, the row is discarded, and a failed POST creates a new row with
\* count 1.
C6_ExpiredRowDiscarded ==
    (/\ last.handled
     /\ cfg.cooloff # 0
     /\ last.req.method = "POST"
     /\ last.stale # {})
    => /\ ~last.blocked
       /\ ~last.logout
       /\ last.response = last.req.response
       /\ IF FailedPost(last.req)
          THEN \E a \in store : Rows = {a} /\ FreshRow(a, last.req)
          ELSE Rows = {}

C6_Witness ==
    /\ last.handled
    /\ cfg.cooloff # 0
    /\ cfg.lockout
    /\ FailedPost(last.req)
    /\ \E c \in last.stale : c > cfg.limit
    /\ ~last.blocked
    /\ \E a \in Rows : a.failures_since_start = 1

\* C7: a decorated_login that wraps a decorated_login does not look up or
\* write the table and does not call logout: however many layers there are,
\* a request causes at most one lookup and one write, the response is the
\* one the innermost layer returns, and a failed POST that is not blocked
\* raises the identity's count by exactly one.
C7_NestedGuardsTrackOnce ==
    (last.handled /\ last.req.depth > 1)
    => /\ last.lookups = (IF last.req.method = "POST" THEN 1 ELSE 0)
       /\ last.writes <= 1
       /\ last.logout = last.blocked
       /\ last.response = (IF last.blocked THEN LockoutResponse
                                           ELSE last.req.response)
       /\ (FailedPost(last.req) /\ ~last.blocked) =>
             /\ Cardinality(Rows) = 1
             /\ \A a \in Rows : last.prior = {a.failures_since_start - 1}

C7_Witness ==
    /\ last.handled
    /\ last.req.depth = MaxDepth
    /\ FailedPost(last.req)
    /\ ~last.blocked
    /\ last.prior = {1}
    /\ \E a \in Rows : a.failures_since_start = 2

\* C8: with lockout disabled no request is blocked (the view's response is
\* returned, logout is not called), and every failed POST raises the
\* identity's count by one, also above the limit.
C8_CountedNeverBlocked ==
    (last.handled /\ ~cfg.lockout)
    => /\ ~last.blocked
       /\ ~last.logout
       /\ last.response = last.req.response
       /\ FailedPost(last.req) =>
             /\ Cardinality(Rows) = 1
             /\ \A a \in Rows : last.prior = {a.failures_since_start - 1}

C8_Witness ==
    /\ last.handled
    /\ ~cfg.lockout
    /\ FailedPost(last.req)
    /\ \E c \in last.prior : c > cfg.limit
    /\ ~last.blocked
    /\ \E a \in Rows : last.prior = {a.failures_since_start - 1}

\* C9: with USE_USER_AGENT set, requests of one IP address with different
\* user agents are separate identities: handling a request leaves the rows
\* of every other identity as they are, and a request is blocked only when
\* the count of its own identity is above the limit.
C9_OwnCount ==
    (last.handled /\ cfg.use_ua /\ last.blocked)
    => \E c \in last.prior : c > cfg.limit

C9_OthersKept ==
    cfg.use_ua
    => (store \ RowsOf(store, last'.req)) = (store' \ RowsOf(store', last'.req))

C9_IndependentIdentities == []C9_OwnCount /\ [][C9_OthersKept]_vars

C9_Witness ==
    /\ cfg.use_ua
    /\ last.handled
    /\ last.req.ua = 2
    /\ FailedPost(last.req)
    /\ ~last.blocked
    /\ \E a \in store : /\ a.ip_address = last.req.ip
                        /\ a.user_agent = 1
                        /\ a.failures_since_start > cfg.limit
    /\ \E a \in Rows : a.failures_since_start = 1

\* C10: the table holds at most one row per identity, also when requests
\* of one identity are in flight together.
C10_OneRowPerIdentity ==
    \A a, b \in store :
        Identity(a.ip_address, a.user_agent) = Identity(b.ip_address, b.user_agent)
        => a = b

\* C12: a blocked request is answered with exactly one lockout response,
\* chosen in this order: the template when LOCKOUT_TEMPLATE is set, else the
\* redirect when LOCKOUT_URL is set, else the plain text, "try again later"
\* when COOLOFF_TIME is set and "contact an admin" when it is not; it is
\* never the login view's response and never no response.
C12_LockoutPrecedence ==
    (last.handled /\ last.blocked)
    => /\ last.response.some
       /\ last.response # last.req.response
       /\ last.response.kind =
             CASE cfg.template -> "template"
               [] ~cfg.template /\ cfg.url -> "redirect"
               [] ~cfg.template /\ ~cfg.url /\ cfg.cooloff # 0 -> "text_later"
               [] OTHER -> "text_admin"

C12_Witness ==
    /\ last.handled
    /\ last.blocked
    /\ cfg.template
    /\ cfg.url
    /\ cfg.cooloff # 0
    /\ last.response.kind = "template"

\* The identity of the request handled last had an unexpired count above
\* the limit when the request arrived, and lockout is enabled.
OverLimit ==
    /\ last.handled
    /\ cfg.lockout
    /\ \E c \in last.prior : c > cfg.limit

\* C13 as stated: with lockout enabled, every request of an identity over
\* the limit gets the lockout response, whatever its HTTP method.
C13_AnyMethodBlocked ==
    OverLimit
    => /\ last.blocked
       /\ IsLockoutResponse(last.response)

\* C13: with lockout enabled, a request of an identity over the limit gets
\* the lockout response exactly when it is a POST; a request with another
\* method is not checked: it gets the login view's response, logout is not
\* called and the table is not read.
C13_PostBlocked ==
    OverLimit
    => /\ last.blocked <=> last.req.method = "POST"
       /\ last.blocked => IsLockoutResponse(last.response)
       /\ ~last.blocked
          => /\ last.response = last.req.response
             /\ ~last.logout
             /\ last.session = last.req.login
             /\ last.lookups = 0

C13_Witness ==
    /\ OverLimit
    /\ last.req.method = "GET"
    /\ last.response = last.req.response
    /\ ~last.blocked
    /\ \E a \in Rows : a.failures_since_start > cfg.limit

\* C14 as stated: every request that is not classified unsuccessful and is
\* not blocked, a request that is not a POST included, leaves no row of its
\* identity.
C14_NotUnsuccessfulClears ==
    (last.handled /\ ~FailedPost(last.req) /\ ~last.blocked)
    => Rows = {}

\* A request that is not blocked is recorded as a failure exactly when it
\* is a POST whose response has no location header and a status other than
\* 302; a POST that is not such a failure leaves no row of its identity.
C14_Classified ==
    (last.handled /\ ~last.blocked)
    => /\ FailedPost(last.req) => (Rows # {} /\ last.writes = 1)
       /\ (last.req.method = "POST" /\ ~FailedPost(last.req))
          => Rows = {}
       /\ last.req.method # "POST" => (last.lookups = 0 /\ last.writes = 0)

\* A request that is not a POST leaves the table as it is.
C14_OtherMethodsKeep ==
    last'.req.method # "POST" => store' = store

\* C14: a request is classified unsuccessful exactly when it is a POST and
\* the login view returned a response without location header and with a
\* status other than 302.  A POST that is not classified unsuccessful and
\* not blocked clears the row of its identity; a request with another
\* method is never classified and leaves the table untouched.
C14_PostClassification == []C14_Classified /\ [][C14_OtherMethodsKeep]_vars

C14_Witness ==
    /\ last.handled
    /\ last.req.method = "GET"
    /\ ~last.blocked
    /\ last.lookups = 0
    /\ \E a \in Rows : a.failures_since_start <= cfg.limit

\* C16: a blocked request leaves the table as it is: no row is created or
\* deleted, and the count, the time of the last attempt and the recorded
\* parameters of every row stay what they were.
C16_BlockedKeepsStore ==
    [][(last'.handled /\ last'.blocked) => store' = store]_vars

C16_Witness ==
    /\ last.handled
    /\ last.blocked
    /\ FailedPost(last.req)
    /\ last.writes = 0
    /\ \E a \in Rows : /\ a.failures_since_start = cfg.limit + 1
                       /\ a.attempt_time < now

\* C19: with lockout enabled and the table empty at the start, every row in
\* every reachable state has 1 <= failures_since_start <= FAILURE_LIMIT + 1,
\* also when requests of one identity are in flight together.
C19_CountInRange ==
    cfg.lockout
    => \A a \in store : /\ 1 <= a.failures_since_start
                        /\ a.failures_since_start <= cfg.limit + 1

C19_Witness ==
    /\ cfg.lockout
    /\ last.handled
    /\ FailedPost(last.req)
    /\ ~last.blocked
    /\ \E a \in store : a.failures_since_start = cfg.limit + 1
    /\ \E p \in DOMAIN procs :
          /\ procs[p].pc = "check"
          /\ FailedPost(procs[p].req)
          /\ procs[p].attempt.id # 0
          /\ procs[p].attempt.failures_since_start = cfg.limit

\* C17: in every handled request the login view is called exactly once, and
\* the table is read only after it returned.  When the request is blocked,
\* logout(request) runs after the view and before the lockout response, so
\* no session is active when the lockout response is returned, also when
\* the view logged the user in; when the request is not blocked logout is
\* not called and the session is what the view left.
C17_ViewThenLogout ==
    last.handled
    => /\ last.calls = 1
       /\ last.blocked => (last.logout /\ ~last.session /\ last.lookups = 1)
       /\ ~last.blocked => (~last.logout /\ last.session = last.req.login)

C17_Witness ==
    /\ last.handled
    /\ last.calls = 1
    /\ last.req.depth = MaxDepth
    /\ last.req.login
    /\ last.blocked
    /\ ~last.session

\* The strings, joined as they were appended one after the other.
RECURSIVE Joined(_)
Joined(strs) ==
    IF Len(strs) = 1 THEN strs[1]
    ELSE Joined(SubSeq(strs, 1, Len(strs) - 1))
         \o <<NlTok, DashTok, NlTok>> \o strs[Len(strs)]

Recorded == Len(last.snaps)

Locked ==
    /\ cfg.lockout
    /\ \E a \in store : a.failures_since_start > cfg.limit /\ ~Stale(a, now)

\* A lockout whose end lies before the end of the modelled clock.
LockedWithEndInSight ==
    /\ cfg.lockout
    /\ cfg.cooloff # 0
    /\ \E a \in store : a.failures_since_start > cfg.limit /\ ~Stale(a, now)
    /\ \A a \in store : a.attempt_time + cfg.cooloff < MaxTime

AttemptTimes(st) == {<<a.id, a.attempt_time>> : a \in st}

\* A blocked request leaves every attempt_time as it is.
C18_BlockedKeepsTime ==
    (last'.handled /\ last'.blocked) => AttemptTimes(store') = AttemptTimes(store)

\* A POST that arrives after the cool-off of the row has passed is not
\* blocked, whether or not the identity was turned away in between.
C18_PastCooloffPasses ==
    (/\ last.handled
     /\ cfg.lockout
     /\ cfg.cooloff # 0
     /\ last.req.method = "POST"
     /\ last.stale # {}
     /\ last.prior = {0})
    => ~last.blocked /\ last.lookups = 1

\* C18: with lockout and cool-off, blocked attempts do not refresh
\* attempt_time, so the lockout ends when the clock passes the time of the
\* last recorded failure plus the cool-off: the next POST is not blocked,
\* however often the identity was turned away in between, and while the
\* clock advances every lockout ends (every lockout whose end lies within
\* the modelled clock).
C18_LockoutEnds ==
    /\ [][C18_BlockedKeepsTime]_vars
    /\ []C18_PastCooloffPasses
    /\ (LockedWithEndInSight ~> ~Locked)

C18_Witness ==
    /\ last.handled
    /\ cfg.lockout
    /\ cfg.cooloff # 0
    /\ last.req.method = "POST"
    /\ last.denied
    /\ \E c \in last.stale : c > cfg.limit
    /\ last.prior = {0}
    /\ ~last.blocked

\* C20 as stated: with lockout enabled, and no login that succeeded and no
\* cool-off expiry in between, at most FAILURE_LIMIT + 1 failed POSTs of an
\* identity are answered with the login view's own response, also when
\* requests are in flight together.
C20_PassedWithinLimit ==
    cfg.lockout => last.passed <= cfg.limit + 1

\* C20: with lockout enabled, and no login that succeeded and no cool-off
\* expiry in between, at most FAILURE_LIMIT + 1 failed POSTs of an identity
\* are answered with the login view's own response, as long as its requests
\* are handled one after the other; requests in flight together can get
\* more.
C20_PassedWithinLimitInTurn ==
    (cfg.lockout /\ ~last.overlap) => last.passed <= cfg.limit + 1

C20_Witness ==
    /\ cfg.lockout
    /\ ~last.overlap
    /\ last.passed = cfg.limit + 1
    /\ last.handled
    /\ FailedPost(last.req)
    /\ last.blocked
    /\ \A p \in DOMAIN procs : procs[p].pc = "idle"

\* The request of p is a failed POST that found a row at lookup and is
\* recorded in this step.
Records(p) ==
    /\ procs[p].pc = "check"
    /\ procs'[p].pc = "idle"
    /\ FailedPost(procs[p].req)
    /\ procs[p].attempt.id # 0
    /\ ~last'.blocked

\* C15: the read of a row and its write are separate steps, and the count
\* written is the count read plus one, whatever the table holds at the time
\* of the write; so two failed POSTs of one identity that are in flight
\* together and both recorded can raise failures_since_start by one in
\* total (a lost update; the state is C15_Witness).
C15_WriteFromRead ==
    [][\A p \in DOMAIN procs :
          Records(p)
          => \E a \in store' :
                /\ a.id = procs[p].attempt.id
                /\ a.failures_since_start = procs[p].attempt.failures_since_start + 1]_vars

\* One row, each of three failed POSTs answered with the view's response
\* and recorded, none deleted in between, and a count of two.
C15_Witness ==
    /\ last.handled
    /\ FailedPost(last.req)
    /\ ~last.blocked
    /\ last.writes = 1
    /\ last.overlap
    /\ \A p \in DOMAIN procs : procs[p].pc = "idle"
    /\ \E a \in store : /\ store = {a}
                        /\ a.failures_since_start = cfg.limit + 1
                        /\ last.passed = a.failures_since_start + 1

====
